---- MODULE Spec2Model ----
(***************************************************************************)
(* Token bucket rate limiter over Redis (RateLimiter.check_rate_limit).    *)
(*                                                                         *)
(* Time is counted in whole seconds.  The code's float `tokens` is kept as *)
(* an exact rational with denominator window_seconds: the model's tokens   *)
(* fields hold  tokens * window_seconds, so that                           *)
(*    tokens + elapsed * (max_requests / window_seconds)                   *)
(* is the integer  tokens + elapsed * max_requests  in these units.        *)
(* str() and float() of lines 151-152, 168-169 are inverse on such values. *)
(***************************************************************************)
EXTENDS Integers, FiniteSets, Sequences, TLC

\* ---- bounds of the model ------------------------------------------------
MaxCalls == 4
MaxFew == 2
MaxCap == 3
MaxWin == 2
MaxTime == 3
MaxLen == 2

\* the longest key the tests accept (test_security.py line 236)
KeyLimit == 100

Keys == {"k1", "k2"}
\* the key of the specifications that follow a single bucket
OneKey == {"k1"}
Calls == 1..MaxCalls
Capacities == 1..MaxCap
Windows == 1..MaxWin

VARIABLES
    fail_open,       \* self.fail_open
    redis,           \* self.redis: "None" or "client"
    storeUp,         \* whether the Redis server answers
    store,           \* the Redis hashes rate_limit:<key>, with their TTL
    clock,           \* time.time()
    max_requests,    \* the limit every call is made with
    window_seconds,  \* the window every call is made with
    pc,              \* where each check_rate_limit call is
    key,             \* its key argument
    now,             \* its local now
    bucket,          \* its local bucket: what hgetall gave
    tokens,          \* its local tokens (times window_seconds)
    result,          \* the dict it returned
    outcome,         \* which return (or raise) ended it
    wrote,           \* history: the call changed the store
    shadow,          \* history: the store of the run without the denied calls
    twin,            \* history: the call's decision in that run
    request,         \* get_rate_limit_key: the request's X-Forwarded-For, client host, path
    strategy,        \* its strategy argument
    user_id,         \* its user_id argument
    built,           \* what it returned, or that it raised
    via,             \* which wrapper made each call: "middleware", "decorator" or "none"
    response,        \* the HTTP response the wrapper gave, or that it raised
    called           \* how many times the wrapper called the endpoint

vars == <<fail_open, redis, storeUp, store, clock, max_requests, window_seconds,
          pc, key, now, bucket, tokens, result, outcome, wrote, shadow, twin,
          request, strategy, user_id, built, via, response, called>>

httpvars == <<via, response, called>>

keyvars == <<request, strategy, user_id, built>>

config == <<fail_open, max_requests, window_seconds>>

\* ---- values -------------------------------------------------------------
Min(a, b) == IF a <= b THEN a ELSE b
Max(a, b) == IF a >= b THEN a ELSE b

\* int(x) of a float x = num/den: truncation toward zero
IntTrunc(num, den) == IF num >= 0 THEN num \div den ELSE -((-num) \div den)

\* TTL of a key that has none (Redis TTL -1)
NoTTL == -1

\* hgetall of a missing key gives {}
Absent == [present |-> FALSE, tokens |-> 0, last_refill |-> 0, ttl |-> 0]

NoResult == [allowed |-> FALSE, limit |-> 0, remaining |-> 0, reset |-> 0, retry_after |-> 0]

\* ---- the token computation (lines 146-163) --------------------------------
\* the refill without its cap at max_requests
RefillUncapped(b, n) == b.tokens + (n - b.last_refill) * max_requests

\* the refill at one token a second, whatever the window
RefillPerSecond(b, n) ==
    Min(max_requests * window_seconds,
        b.tokens + (n - b.last_refill) * window_seconds)

\* a bucket that gets nothing back with time
RefillNever(b, n) == Min(max_requests * window_seconds, b.tokens)

\* lines 155-157: tokens = min(max_requests, tokens + elapsed * refill_rate)
Refill(b, n) == Min(max_requests * window_seconds,
                    b.tokens + (n - b.last_refill) * max_requests)

\* a new bucket that forgets the token of the request that made it
NewBucketFull == max_requests * window_seconds

\* line 148: tokens = max_requests - 1
NewBucket == (max_requests - 1) * window_seconds

\* a request that takes two tokens from an existing bucket
ConsumeTwo(b, n) == IF ~b.present THEN NewBucket ELSE Refill(b, n) - 2 * window_seconds

\* lines 146-160: the tokens left after this request took one
Consume(b, n) == IF ~b.present THEN NewBucket ELSE Refill(b, n) - window_seconds

\* a check that wants a token to be left over after taking its own
AllowedStrict(t) == t > 0

\* line 163
Allowed(t) == t >= 0

\* the decision whose remaining is int(tokens), without the max(0, ..) of line 175
DecisionNoFloor(t, n) ==
    [allowed |-> Allowed(t),
     limit |-> max_requests,
     remaining |-> IntTrunc(t, window_seconds),
     reset |-> n + window_seconds,
     retry_after |-> IF ~Allowed(t) THEN window_seconds ELSE 0]

\* the decision whose remaining counts the token this request took
DecisionBeforeConsume(t, n) ==
    [allowed |-> Allowed(t),
     limit |-> max_requests,
     remaining |-> Max(0, IntTrunc(t + window_seconds, window_seconds)),
     reset |-> n + window_seconds,
     retry_after |-> IF ~Allowed(t) THEN window_seconds ELSE 0]

\* the decision whose reset forgets the window
DecisionResetNow(t, n) ==
    [allowed |-> Allowed(t),
     limit |-> max_requests,
     remaining |-> Max(0, IntTrunc(t, window_seconds)),
     reset |-> n,
     retry_after |-> IF ~Allowed(t) THEN window_seconds ELSE 0]

\* the decision of a limiter that counts in the process the calls it has answered
\* and reports what is left of the capacity by that count
DecisionInProcess(t, n) ==
    [allowed |-> Allowed(t),
     limit |-> max_requests,
     remaining |-> Max(0, max_requests - 1 - Cardinality({q \in Calls : pc[q] = "done"})),
     reset |-> n + window_seconds,
     retry_after |-> IF ~Allowed(t) THEN window_seconds ELSE 0]

\* lines 175-185
Decision(t, n) ==
    [allowed |-> Allowed(t),
     limit |-> max_requests,
     remaining |-> Max(0, IntTrunc(t, window_seconds)),
     reset |-> n + window_seconds,
     retry_after |-> IF ~Allowed(t) THEN window_seconds ELSE 0]

\* lines 193-199
FailOpenDecision(n) ==
    [allowed |-> TRUE, limit |-> max_requests, remaining |-> max_requests,
     reset |-> n + window_seconds, retry_after |-> 0]

\* lines 202-208
FailClosedDecision(n) ==
    [allowed |-> FALSE, limit |-> max_requests, remaining |-> 0,
     reset |-> n + window_seconds, retry_after |-> window_seconds]

\* lines 187-208
Fallback(n) == IF fail_open THEN FailOpenDecision(n) ELSE FailClosedDecision(n)

\* ---- the store ------------------------------------------------------------
\* HSET key tokens .. last_refill ..: creates the hash without a TTL, keeps the
\* TTL of an existing one
HSetStoreAll(s, k, t, n) ==
    [x \in Keys |-> [present |-> TRUE, tokens |-> t, last_refill |-> n,
                     ttl |-> IF s[x].present THEN s[x].ttl ELSE NoTTL]]

HSetStore(s, k, t, n) ==
    [s EXCEPT ![k] = [present |-> TRUE, tokens |-> t, last_refill |-> n,
                      ttl |-> IF s[k].present THEN s[k].ttl ELSE NoTTL]]

\* EXPIRE key secs: no effect on a missing key
ExpireStore(s, k, secs) ==
    IF s[k].present THEN [s EXCEPT ![k].ttl = secs] ELSE s

\* one second passes in the store: TTLs count down, keys at the end of theirs go
Age(s) ==
    [k \in Keys |->
        IF s[k].present /\ s[k].ttl = 1 THEN Absent
        ELSE IF s[k].present /\ s[k].ttl > 1 THEN [s[k] EXCEPT !.ttl = @ - 1]
        ELSE s[k]]

\* lines 144-172 run with nothing in between
ApplyCheck(s, k, n) ==
    LET t == Consume(s[k], n) IN
    IF Allowed(t)
    THEN ExpireStore(HSetStore(s, k, t, n), k, window_seconds * 2)
    ELSE s

\* ---- the rate-limit key (lines 210-262) ---------------------------------------------
\* A string is the sequence of its characters. None and the empty string are both
\* <<>>: lines 219 and 251, 257 test them with `if x` / `if not x`
Whitespace == {" ", "\n", "\r", "\t"}

\* the last entry of the chain, that of the proxy nearest to the server
SplitLast(s) ==
    LET commas == {i \in 1..Len(s) : s[i] = ","} IN
    IF commas = {} THEN s
    ELSE SubSeq(s, (CHOOSE i \in commas : \A j \in commas : i >= j) + 1, Len(s))

\* s.split(',')[0]
SplitFirst(s) ==
    LET commas == {i \in 1..Len(s) : s[i] = ","} IN
    IF commas = {} THEN s
    ELSE SubSeq(s, 1, (CHOOSE i \in commas : \A j \in commas : i <= j) - 1)

\* s.strip()
Strip(s) ==
    LET solid == {i \in 1..Len(s) : s[i] \notin Whitespace} IN
    IF solid = {} THEN <<>>
    ELSE SubSeq(s, CHOOSE i \in solid : \A j \in solid : i <= j,
                   CHOOSE i \in solid : \A j \in solid : i >= j)

\* lines 210-225
get_client_ip(r) ==
    IF r.forwarded_for # <<>> THEN Strip(SplitFirst(r.forwarded_for)) ELSE r.host

Colon == <<":">>
TagIp == <<"i", "p">>
TagUser == <<"u", "s", "e", "r">>
TagCombined == <<"c", "o", "m", "b", "i", "n", "e", "d">>

NotBuilt == [state |-> "none", key |-> <<>>]
ValueError == [state |-> "raised", key |-> <<>>]
KeyOf(k) == [state |-> "returned", key |-> k]

\* a key builder that refuses 'combined' without a user as it refuses 'user'
get_rate_limit_key_strict(r, st, uid) ==
    IF st = "ip"
    THEN KeyOf(TagIp \o Colon \o get_client_ip(r) \o Colon \o r.path)
    ELSE IF st = "user"
    THEN IF uid = <<>> THEN ValueError
         ELSE KeyOf(TagUser \o Colon \o uid \o Colon \o r.path)
    ELSE IF st = "combined"
    THEN IF uid = <<>>
         THEN ValueError
         ELSE KeyOf(TagCombined \o Colon \o uid \o Colon \o get_client_ip(r)
                    \o Colon \o r.path)
    ELSE ValueError

\* lines 227-262
get_rate_limit_key(r, st, uid) ==
    IF st = "ip"
    THEN KeyOf(TagIp \o Colon \o get_client_ip(r) \o Colon \o r.path)
    ELSE IF st = "user"
    THEN IF uid = <<>> THEN ValueError
         ELSE KeyOf(TagUser \o Colon \o uid \o Colon \o r.path)
    ELSE IF st = "combined"
    THEN IF uid = <<>>
         THEN KeyOf(TagIp \o Colon \o get_client_ip(r) \o Colon \o r.path)
         ELSE KeyOf(TagCombined \o Colon \o uid \o Colon \o get_client_ip(r)
                    \o Colon \o r.path)
    ELSE ValueError

\* the values a caller can supply: short strings over the characters that matter,
\* and the long header of the tests (line 222)
Chars == {"1", ":", ";", ",", " "}
Short(S) == UNION {[1..n -> S] : n \in 0..MaxLen}
LongValue == [i \in 1..(KeyLimit + 1) |-> "x"]
\* X-Forwarded-For: client, proxy (line 220)
ChainValue == <<" ", "1", " ", ",", "2">>
HeaderValues == Short(Chars) \cup {LongValue, ChainValue}
Hosts == {<<"9">>}
Paths == {<<"/", "a">>, <<"/", "a", ":", "/", "b">>}
UserIds == {<<>>, <<"u">>, <<"u", ":">>, <<"u", "\n">>}
Strategies == {"ip", "user", "combined", "other"}
Requests == [forwarded_for : HeaderValues, host : Hosts, path : Paths]

\* no key is being built
NoKey ==
    /\ request = [forwarded_for |-> <<>>, host |-> <<"9">>, path |-> <<"/", "a">>]
    /\ strategy = "ip"
    /\ user_id = <<>>
    /\ built = NotBuilt

\* ---- the HTTP wrappers (lines 268-401) ----------------------------------------------
\* SKIP_PATHS (line 74), by '/health'
SKIP_PATHS == {<<"/", "h", "e", "a", "l", "t", "h">>}

\* path.startswith(prefix)
StartsWith(path, prefix) ==
    Len(path) >= Len(prefix) /\ SubSeq(path, 1, Len(prefix)) = prefix

\* line 278
Skipped(path) == \E skip \in SKIP_PATHS : StartsWith(path, skip)

\* self.rate_limits (line 274): the strategy configured for a path; the limit and
\* the window are max_requests and window_seconds
rate_limits == [path \in {<<"/", "a">>, <<"/", "u">>,
                          <<"/", "h", "e", "a", "l", "t", "h", "z">>} |->
                   IF path = <<"/", "u">> THEN "user" ELSE "ip"]

\* the requests the wrappers get
HttpPaths == {<<"/", "a">>, <<"/", "u">>, <<"/", "x">>,
              <<"/", "h", "e", "a", "l", "t", "h", "z">>}
HttpRequests == [forwarded_for : {<<>>}, host : Hosts, path : HttpPaths]
                    \cup [forwarded_for : {<<"1">>}, host : Hosts, path : {<<"/", "a">>}]

\* the hash rate_limit:<key> of line 144, for the keys those requests give
KeyNames == [k \in Keys |->
                IF k = "k1" THEN TagIp \o Colon \o <<"9">> \o Colon \o <<"/", "a">>
                ELSE TagIp \o Colon \o <<"1">> \o Colon \o <<"/", "a">>]
StoreKey(k) == CHOOSE name \in Keys : KeyNames[name] = k

NoResponse == [status |-> 0, headers |-> {}]
\* what call_next / the endpoint answers
Downstream == [status |-> 200, headers |-> {}]
\* an exception leaves the wrapper: the server answers 500
Unhandled == [status |-> 500, headers |-> {}]

\* lines 327-329
RateLimitHeaders(res) ==
    {<<"X-RateLimit-Limit", ToString(res.limit)>>,
     <<"X-RateLimit-Remaining", ToString(res.remaining)>>,
     <<"X-RateLimit-Reset", ToString(res.reset)>>}

\* lines 331-332
RetryAfterHeader(res) ==
    IF ~res.allowed THEN {<<"Retry-After", ToString(res.retry_after)>>} ELSE {}

\* the middleware that puts the headers on its own 429 only
MiddlewareResponseBare(res) ==
    [status |-> IF res.allowed THEN 200 ELSE 429,
     headers |-> IF res.allowed THEN {}
                 ELSE RateLimitHeaders(res) \cup RetryAfterHeader(res)]

\* lines 305-334: the response of the middleware to a decision
MiddlewareResponse(res) ==
    [status |-> IF res.allowed THEN 200 ELSE 429,
     headers |-> RateLimitHeaders(res) \cup RetryAfterHeader(res)]

\* lines 382-398: the HTTPException of the decorator, or the endpoint's answer
DecoratorResponse(res) ==
    IF ~res.allowed
    THEN [status |-> 429,
          headers |-> {<<"X-RateLimit-Limit", ToString(res.limit)>>,
                       <<"X-RateLimit-Remaining", "0">>,
                       <<"X-RateLimit-Reset", ToString(res.reset)>>,
                       <<"Retry-After", ToString(res.retry_after)>>}]
    ELSE Downstream

NoHttp ==
    /\ via = [p \in Calls |-> "none"]
    /\ response = [p \in Calls |-> NoResponse]
    /\ called = [p \in Calls |-> 0]

\* ---- initial state ----------------------------------------------------------
InitCalls ==
    /\ pc = [p \in Calls |-> "idle"]
    /\ key = [p \in Calls |-> "k1"]
    /\ now = [p \in Calls |-> 0]
    /\ bucket = [p \in Calls |-> Absent]
    /\ tokens = [p \in Calls |-> 0]
    /\ result = [p \in Calls |-> NoResult]
    /\ outcome = [p \in Calls |-> "none"]
    /\ wrote = [p \in Calls |-> FALSE]
    /\ twin = [p \in Calls |-> NoResult]

InitStore ==
    /\ store = [k \in Keys |-> Absent]
    /\ shadow = [k \in Keys |-> Absent]
    /\ clock = 0

\* RateLimiter.__init__: no client yet
Init ==
    /\ fail_open \in BOOLEAN
    /\ redis = "None"
    /\ storeUp \in BOOLEAN
    /\ max_requests \in Capacities
    /\ window_seconds \in Windows
    /\ InitStore
    /\ InitCalls
    /\ NoHttp
    /\ NoKey

\* ---- actions ----------------------------------------------------------------
InFlight == {p \in Calls : pc[p] \in {"hgetall", "hset", "expire"}}

\* connect(): the client is made before the ping; a failed ping is raised only
\* when not fail_open, and either way the client stays assigned
Connect ==
    /\ redis = "None"
    /\ redis' = "client"
    /\ UNCHANGED <<config, keyvars, httpvars, storeUp, store, clock, pc, key, now, bucket, tokens, result,
                   outcome, wrote, shadow, twin>>

\* line 140: now = time.time(); calls are taken in the order of their numbers
Start(p, k) ==
    /\ pc[p] = "idle"
    /\ \A q \in Calls : q < p => pc[q] # "idle"
    /\ pc' = [pc EXCEPT ![p] = "hgetall"]
    /\ key' = [key EXCEPT ![p] = k]
    /\ now' = [now EXCEPT ![p] = clock]
    /\ UNCHANGED <<config, keyvars, httpvars, redis, storeUp, store, clock, bucket, tokens, result, outcome,
                   wrote, shadow, twin>>

\* lines 144-163 and, when denied, 175-185
HGetAll(p) ==
    /\ pc[p] = "hgetall"
    /\ redis = "client"
    /\ storeUp
    /\ LET t == Consume(store[key[p]], now[p]) IN
        /\ bucket' = [bucket EXCEPT ![p] = store[key[p]]]
        /\ tokens' = [tokens EXCEPT ![p] = t]
        /\ IF Allowed(t)
           THEN /\ pc' = [pc EXCEPT ![p] = "hset"]
                /\ UNCHANGED <<result, outcome>>
           ELSE /\ pc' = [pc EXCEPT ![p] = "done"]
                /\ result' = [result EXCEPT ![p] = Decision(t, now[p])]
                /\ outcome' = [outcome EXCEPT ![p] = "decision"]
    /\ UNCHANGED <<config, keyvars, httpvars, redis, storeUp, store, clock, key, now, wrote>>

\* lines 165-170
HSet(p) ==
    /\ pc[p] = "hset"
    /\ storeUp
    /\ store' = HSetStore(store, key[p], tokens[p], now[p])
    /\ wrote' = [wrote EXCEPT ![p] = @ \/ store' # store]
    /\ pc' = [pc EXCEPT ![p] = "expire"]
    /\ UNCHANGED <<config, keyvars, httpvars, redis, storeUp, clock, key, now, bucket, tokens, result, outcome>>

\* lines 172-185
Expire(p) ==
    /\ pc[p] = "expire"
    /\ storeUp
    /\ store' = ExpireStore(store, key[p], window_seconds * 2)
    /\ wrote' = [wrote EXCEPT ![p] = @ \/ store' # store]
    /\ pc' = [pc EXCEPT ![p] = "done"]
    /\ result' = [result EXCEPT ![p] = Decision(tokens[p], now[p])]
    /\ outcome' = [outcome EXCEPT ![p] = "decision"]
    /\ UNCHANGED <<config, keyvars, httpvars, redis, storeUp, clock, key, now, bucket, tokens>>

\* lines 187-208: a store call raises RedisConnectionError
StoreFails(p) ==
    /\ pc[p] \in {"hgetall", "hset", "expire"}
    /\ redis = "client"
    /\ ~storeUp
    /\ pc' = [pc EXCEPT ![p] = "done"]
    /\ result' = [result EXCEPT ![p] = Fallback(now[p])]
    /\ outcome' = [outcome EXCEPT ![p] = "fallback"]
    /\ UNCHANGED <<config, keyvars, httpvars, redis, storeUp, store, clock, key, now, bucket, tokens, wrote>>

\* a store call fails otherwise than by a refused connection: a connection or
\* read timeout (socket_connect_timeout, socket_timeout, lines 102-103) is
\* redis TimeoutError and an error reply is ResponseError; neither is the
\* ConnectionError of lines 36 and 187, so the call raises
StoreRaises(p) ==
    /\ pc[p] \in {"hgetall", "hset", "expire"}
    /\ redis = "client"
    /\ ~storeUp
    /\ pc' = [pc EXCEPT ![p] = "done"]
    /\ outcome' = [outcome EXCEPT ![p] = "raised"]
    /\ UNCHANGED <<config, keyvars, httpvars, redis, storeUp, store, clock, key, now, bucket, tokens, result,
                   wrote>>

\* line 144 with self.redis None: AttributeError, which line 187 does not catch
NoClient(p) ==
    /\ pc[p] = "hgetall"
    /\ redis = "None"
    /\ pc' = [pc EXCEPT ![p] = "done"]
    /\ outcome' = [outcome EXCEPT ![p] = "raised"]
    /\ UNCHANGED <<config, keyvars, httpvars, redis, storeUp, store, clock, key, now, bucket, tokens, result,
                   wrote>>

\* a second passes
Tick ==
    /\ clock < MaxTime
    /\ clock' = clock + 1
    /\ store' = Age(store)
    /\ shadow' = Age(shadow)
    /\ UNCHANGED <<config, keyvars, httpvars, redis, storeUp, pc, key, now, bucket, tokens, result, outcome,
                   wrote, twin>>

\* the server stops answering, or answers again
StoreDown ==
    /\ storeUp
    /\ storeUp' = FALSE
    /\ UNCHANGED <<config, keyvars, httpvars, redis, store, clock, pc, key, now, bucket, tokens, result,
                   outcome, wrote, shadow, twin>>

StoreBack ==
    /\ ~storeUp
    /\ storeUp' = TRUE
    /\ UNCHANGED <<config, keyvars, httpvars, redis, store, clock, pc, key, now, bucket, tokens, result,
                   outcome, wrote, shadow, twin>>

\* another client of the store sets the hash before the limiter is called
\* (tests, lines 59-62, 89-92, 113-116)
TamperTokens == {0, max_requests, max_requests + 3}
TamperSkew == {-(2 * MaxWin), 0, 2 * MaxWin}

Tamper(k, t, d) ==
    /\ \A p \in Calls : pc[p] = "idle"
    /\ ~store[k].present
    /\ storeUp
    /\ store' = HSetStore(store, k, t * window_seconds, clock + d)
    /\ shadow' = HSetStore(shadow, k, t * window_seconds, clock + d)
    /\ UNCHANGED <<config, keyvars, httpvars, redis, storeUp, clock, pc, key, now, bucket, tokens, result,
                   outcome, wrote, twin>>

\* ---- history of the run without the denied calls ------------------------------
\* when call p returns in this step: its decision in that run, and that run's
\* store. That run takes the call only if it was allowed here; a store failure
\* strikes the call there at the same store call as here
Track(p) ==
    IF pc'[p] = "done" /\ outcome'[p] = "decision"
    THEN /\ twin' = [twin EXCEPT ![p] =
                        Decision(Consume(shadow[key[p]], now[p]), now[p])]
         /\ shadow' = IF result'[p].allowed
                      THEN ApplyCheck(shadow, key[p], now[p])
                      ELSE shadow
    ELSE IF pc'[p] = "done" /\ outcome'[p] = "fallback"
    THEN /\ twin' = [twin EXCEPT ![p] = Fallback(now[p])]
         /\ shadow' = IF result'[p].allowed /\ pc[p] = "expire"
                      THEN HSetStore(shadow, key[p],
                                     Consume(shadow[key[p]], now[p]), now[p])
                      ELSE shadow
    ELSE UNCHANGED <<shadow, twin>>

NoTrack == UNCHANGED <<shadow, twin>>

\* connect() has run and the store answers
InitUp ==
    /\ fail_open = TRUE
    /\ redis = "client"
    /\ storeUp = TRUE
    /\ max_requests \in Capacities
    /\ window_seconds \in Windows
    /\ InitStore
    /\ InitCalls
    /\ NoHttp
    /\ NoKey

\* ---- Spec: concurrent callers of a limiter whose store may fail ----------------
Next ==
    \/ Connect
    \/ \E p \in 1..MaxFew, k \in Keys : Start(p, k)
    \/ \E p \in Calls : HGetAll(p) /\ NoTrack
    \/ \E p \in Calls : HSet(p) /\ NoTrack
    \/ \E p \in Calls : Expire(p) /\ NoTrack
    \/ \E p \in Calls : StoreFails(p) /\ NoTrack
    \/ \E p \in Calls : NoClient(p) /\ NoTrack
    \/ \E p \in Calls : StoreRaises(p) /\ NoTrack
    \/ Tick
    \/ StoreDown
    \/ StoreBack

Spec == Init /\ [][Next]_vars

\* ---- SpecConc: concurrent calls at one instant, the store answering ------------
NextConc ==
    \/ \E p \in Calls, k \in Keys : Start(p, k)
    \/ \E p \in Calls : HGetAll(p) /\ NoTrack
    \/ \E p \in Calls : HSet(p) /\ NoTrack
    \/ \E p \in Calls : Expire(p) /\ NoTrack

SpecConc == InitUp /\ [][NextConc]_vars

\* ---- SpecSeq: one call after the other on one key, the store answering, time
\* passing, the bucket possibly set by another client beforehand. A call returns
\* within the second it was made in (socket_timeout=1, line 103)
NextSeq ==
    \/ \E p \in Calls, k \in OneKey : InFlight = {} /\ Start(p, k)
    \/ \E p \in Calls : HGetAll(p) /\ Track(p)
    \/ \E p \in Calls : HSet(p) /\ Track(p)
    \/ \E p \in Calls : Expire(p) /\ Track(p)
    \/ InFlight = {} /\ Tick
    \/ \E k \in OneKey, t \in TamperTokens, d \in TamperSkew : Tamper(k, t, d)

SpecSeq == InitUp /\ [][NextSeq]_vars

\* ---- SpecSeqFail: one call after the other, the store failing and recovering ---
InitSeqFail ==
    /\ fail_open \in BOOLEAN
    /\ redis = "client"
    /\ storeUp = TRUE
    /\ max_requests \in Capacities
    /\ window_seconds \in Windows
    /\ InitStore
    /\ InitCalls
    /\ NoHttp
    /\ NoKey

NextSeqFail ==
    \/ \E p \in 1..MaxFew, k \in Keys : InFlight = {} /\ Start(p, k)
    \/ \E p \in Calls : HGetAll(p) /\ Track(p)
    \/ \E p \in Calls : HSet(p) /\ Track(p)
    \/ \E p \in Calls : Expire(p) /\ Track(p)
    \/ \E p \in Calls : StoreFails(p) /\ Track(p)
    \/ StoreDown
    \/ StoreBack
    \/ InFlight = {} /\ Tick

SpecSeqFail == InitSeqFail /\ [][NextSeqFail]_vars

\* ---- SpecSeqAll: one call after the other on one key, the bucket possibly set
\* by another client beforehand, with a last_refill in the future (tests, lines
\* 113-116), the store failing at any store call of a call:
\* it stops answering while a call is in flight and answers again before the next
NextSeqAll ==
    \/ \E p \in 1..MaxFew, k \in OneKey : InFlight = {} /\ Start(p, k)
    \/ \E p \in Calls : HGetAll(p) /\ NoTrack
    \/ \E p \in Calls : HSet(p) /\ NoTrack
    \/ \E p \in Calls : Expire(p) /\ NoTrack
    \/ \E p \in Calls : StoreFails(p) /\ NoTrack
    \/ InFlight # {} /\ StoreDown
    \/ InFlight = {} /\ StoreBack
    \/ InFlight = {} /\ storeUp /\ Tick
    \/ \E k \in OneKey, t \in TamperTokens : Tamper(k, t, 2 * MaxWin)

SpecSeqAll == InitSeqFail /\ [][NextSeqAll]_vars

\* ---- SpecAnyConfig: as SpecSeqFail, the caller passing any max_requests, also
\* zero or negative (lines 117-122 take the arguments as they come)
AnyCapacities == (-MaxCap)..MaxCap

InitAnyConfig ==
    /\ fail_open \in BOOLEAN
    /\ redis = "client"
    /\ storeUp = TRUE
    /\ max_requests \in AnyCapacities
    /\ window_seconds \in Windows
    /\ InitStore
    /\ InitCalls
    /\ NoHttp
    /\ NoKey

SpecAnyConfig == InitAnyConfig /\ [][NextSeqFail]_vars

\* ---- SpecKey: a key is built for a request ----------------------------------------
GetRateLimitKey ==
    /\ built = NotBuilt
    /\ built' = get_rate_limit_key(request, strategy, user_id)
    /\ UNCHANGED <<config, redis, storeUp, store, clock, pc, key, now, bucket, tokens,
                   result, outcome, wrote, shadow, twin, request, strategy, user_id,
                   httpvars>>

InitKey ==
    /\ fail_open = TRUE
    /\ redis = "client"
    /\ storeUp = TRUE
    /\ max_requests = 1
    /\ window_seconds = 1
    /\ InitStore
    /\ InitCalls
    /\ NoHttp
    /\ request \in Requests
    /\ strategy \in Strategies
    /\ user_id \in UserIds
    /\ built = NotBuilt

NextKey == GetRateLimitKey

SpecKey == InitKey /\ [][NextKey]_vars

\* ---- SpecHttp: requests through the middleware and the decorator, one after the
\* other, the store failing at any store call
\* the requests whose wrapper has not answered yet
Pending == {p \in Calls : via[p] # "none" /\ response[p] = NoResponse}

\* lines 288-303 and 368-380: the key is built, then the check begins
BuildAndCheck(p, r, st, w) ==
    LET b == get_rate_limit_key(r, st, <<>>) IN
    /\ request' = r
    /\ strategy' = st
    /\ user_id' = <<>>
    /\ built' = b
    /\ via' = [via EXCEPT ![p] = w]
    /\ IF b.state = "raised"
       THEN /\ response' = [response EXCEPT ![p] = Unhandled]
            /\ UNCHANGED <<pc, key, now>>
       ELSE /\ pc' = [pc EXCEPT ![p] = "hgetall"]
            /\ key' = [key EXCEPT ![p] = StoreKey(b.key)]
            /\ now' = [now EXCEPT ![p] = clock]
            /\ UNCHANGED response
    /\ UNCHANGED called

\* RateLimitMiddleware.dispatch up to its first await on the store, lines 276-303
Dispatch(p, r) ==
    /\ via[p] = "none"
    /\ \A q \in Calls : q < p => via[q] # "none"
    /\ Pending = {}
    /\ IF Skipped(r.path) \/ r.path \notin DOMAIN rate_limits
       THEN /\ via' = [via EXCEPT ![p] = "middleware"]
            /\ response' = [response EXCEPT ![p] = Downstream]
            /\ called' = [called EXCEPT ![p] = @ + 1]
            /\ request' = r
            /\ UNCHANGED <<pc, key, now, strategy, user_id, built>>
       ELSE BuildAndCheck(p, r, rate_limits[r.path], "middleware")
    /\ UNCHANGED <<config, redis, storeUp, store, clock, bucket, tokens, result, outcome,
                   wrote, shadow, twin>>

\* the wrapper of rate_limit(max_requests, window_seconds, strategy), lines 356-380
Decorated(p, r, st) ==
    /\ via[p] = "none"
    /\ \A q \in Calls : q < p => via[q] # "none"
    /\ Pending = {}
    /\ BuildAndCheck(p, r, st, "decorator")
    /\ UNCHANGED <<config, redis, storeUp, store, clock, bucket, tokens, result, outcome,
                   wrote, shadow, twin>>

\* a wrapper that runs the endpoint whatever the decision and then answers
InvocationsAlways(res) == 1

\* lines 306-307 and 382-398: call_next(request), or func(request, ...), runs once
\* when the decision is allowed and not at all otherwise
Invocations(res) == IF res.allowed THEN 1 ELSE 0

\* lines 305-334 and 382-398: the check has returned, or raised
Respond(p) ==
    /\ p \in Pending
    /\ pc[p] = "done"
    /\ IF outcome[p] = "raised"
       THEN /\ response' = [response EXCEPT ![p] = Unhandled]
            /\ UNCHANGED called
       ELSE /\ response' = [response EXCEPT ![p] =
                               IF via[p] = "middleware"
                               THEN MiddlewareResponse(result[p])
                               ELSE DecoratorResponse(result[p])]
            /\ called' = [called EXCEPT ![p] = @ + Invocations(result[p])]
    /\ UNCHANGED <<config, keyvars, redis, storeUp, store, clock, pc, key, now, bucket,
                   tokens, result, outcome, wrote, shadow, twin, via>>

InitHttp ==
    /\ fail_open \in BOOLEAN
    /\ redis = "client"
    /\ storeUp = TRUE
    /\ max_requests \in Capacities
    /\ window_seconds = MaxWin
    /\ InitStore
    /\ InitCalls
    /\ NoKey
    /\ NoHttp

NextHttp ==
    \/ \E p \in 1..MaxFew, r \in HttpRequests : Dispatch(p, r)
    \/ \E p \in 1..MaxFew, r \in HttpRequests, st \in Strategies :
          r.path = <<"/", "a">> /\ r.forwarded_for = <<>> /\ Decorated(p, r, st)
    \/ \E p \in Calls : HGetAll(p) /\ NoTrack
    \/ \E p \in Calls : HSet(p) /\ NoTrack
    \/ \E p \in Calls : Expire(p) /\ NoTrack
    \/ \E p \in Calls : StoreFails(p) /\ NoTrack
    \/ \E p \in Calls : StoreRaises(p) /\ NoTrack
    \/ \E p \in Calls : Respond(p)
    \/ InFlight # {} /\ StoreDown
    \/ InFlight = {} /\ StoreBack

SpecHttp == InitHttp /\ [][NextHttp]_vars

\* ---- SpecKeys: checks on two keys at one instant, the store answering; the
\* checks on one key come one after the other, those on different keys interleave
\* freely
NextKeys ==
    \/ \E p \in Calls, k \in Keys :
          (\A q \in InFlight : key[q] # k) /\ Start(p, k)
    \/ \E p \in Calls : HGetAll(p) /\ NoTrack
    \/ \E p \in Calls : HSet(p) /\ NoTrack
    \/ \E p \in Calls : Expire(p) /\ NoTrack

SpecKeys == InitUp /\ [][NextKeys]_vars

\* ---- SpecRace: concurrent checks on one fresh key at one instant, the store
\* answering, up to MaxFew + 1 of them in flight together
NextRace ==
    \/ \E p \in Calls, k \in OneKey :
          Cardinality(InFlight) <= MaxFew /\ Start(p, k)
    \/ \E p \in Calls : HGetAll(p) /\ NoTrack
    \/ \E p \in Calls : HSet(p) /\ NoTrack
    \/ \E p \in Calls : Expire(p) /\ NoTrack

\* without time the window only scales the tokens: one window is enough
InitRace ==
    /\ fail_open = TRUE
    /\ redis = "client"
    /\ storeUp = TRUE
    /\ max_requests \in Capacities
    /\ window_seconds = MaxWin
    /\ InitStore
    /\ InitCalls
    /\ NoHttp
    /\ NoKey

SpecRace == InitRace /\ [][NextRace]_vars

\* ---- SpecRetry: one caller that keeps retrying on one key, every second at
\* least, while time advances; the store answers; the bucket may have been set by
\* another client beforehand, with a last_refill up to a window ahead
\* the calls the caller has not made yet
Unmade == {p \in Calls : pc[p] = "idle"}

\* the caller has tried in the present second
Tried == \E p \in Calls : pc[p] = "done" /\ now[p] = clock

NextRetry ==
    \/ \E p \in Calls, k \in OneKey :
          /\ InFlight = {}
          /\ ~Tried \/ Cardinality(Unmade) > MaxTime - clock
          /\ Start(p, k)
    \/ \E p \in Calls : HGetAll(p) /\ NoTrack
    \/ \E p \in Calls : HSet(p) /\ NoTrack
    \/ \E p \in Calls : Expire(p) /\ NoTrack
    \/ InFlight = {} /\ Tried /\ Tick
    \/ \E k \in OneKey, t \in TamperTokens, d \in 0..MaxWin : Tamper(k, t, d)

\* time keeps advancing and the caller keeps retrying
SpecRetry == InitUp /\ [][NextRetry]_vars /\ WF_vars(NextRetry)

\* ---- the calls that returned -----------------------------------------------------
Returned(p) == pc[p] = "done" /\ outcome[p] # "raised"

\* the calls on key k that returned; in SpecSeq and SpecSeqFail their numbers are
\* the order they were made in
DoneOn(k) == {p \in Calls : Returned(p) /\ key[p] = k}

\* the place of call p among the returned calls on its key
Rank(p) == Cardinality({q \in DoneOn(key[p]) : q <= p})

AllowedOn(k) == {p \in DoneOn(k) : result[p].allowed}

\* the store after i checks on key k at time t, one after the other, from no bucket
RECURSIVE SeqStore(_, _, _)
SeqStore(k, i, t) ==
    IF i = 0 THEN [x \in Keys |-> Absent] ELSE ApplyCheck(SeqStore(k, i - 1, t), k, t)

\* the decision of the i-th of them
SeqDecision(k, i, t) == Decision(Consume(SeqStore(k, i - 1, t)[k], t), t)

\* ---- C1 ---------------------------------------------------------------------------
\* C1: of any number of concurrent checks on one fresh key, with no time passing,
\* at most max_requests are allowed, whatever the interleaving of their store calls.
C1_AtMostCapacityAllowed ==
    \A k \in Keys : Cardinality(AllowedOn(k)) <= max_requests

\* ---- C2 ---------------------------------------------------------------------------
\* C2: a check is one atomic step against the store: between a check's read of the
\* bucket and the end of its write and TTL refresh, no other check on the same key
\* performs a store call.
C2_CheckIsAtomic ==
    [][\A p, q \in Calls :
         (/\ p # q
          /\ pc[p] \in {"hset", "expire"}
          /\ pc[q] \in {"hgetall", "hset", "expire"}
          /\ key[p] = key[q])
         => pc'[q] = pc[q]]_vars

\* ---- C3 ---------------------------------------------------------------------------
\* C3: decisions on one key are linearizable: once concurrent checks on a key have
\* all returned, their decisions and the stored bucket are those of the same checks
\* made one after the other in some order.
C3_Linearizable ==
    InFlight = {} =>
        \A k \in Keys :
            LET P == DoneOn(k)
                n == Cardinality(P)
            IN \E f \in [P -> 1..n] :
                /\ \A p, q \in P : p # q => f[p] # f[q]
                /\ \A p \in P : result[p] = SeqDecision(k, f[p], clock)
                /\ store[k] = SeqStore(k, n, clock)[k]

\* ---- C4 ---------------------------------------------------------------------------
\* the checks on key k so far were all made at one instant, the first on no bucket
FreshBurst(k) ==
    /\ \A p, q \in DoneOn(k) : now[p] = now[q]
    /\ \A p \in DoneOn(k) : Rank(p) = 1 => ~bucket[p].present

\* C4: of sequential checks on a key with no bucket, made with no time passing,
\* exactly the first max_requests are allowed and the next one is denied.
C4_ExactBoundary ==
    \A k \in Keys :
        FreshBurst(k) =>
            \A p \in DoneOn(k) : result[p].allowed <=> Rank(p) <= max_requests

C4_Witness ==
    /\ max_requests >= 2
    /\ FreshBurst("k1")
    /\ \E p \in DoneOn("k1") : Rank(p) = max_requests + 1 /\ ~result[p].allowed

\* ---- C5 ---------------------------------------------------------------------------
\* the checks on key k so far: a burst at t0 on no bucket, long enough to use up the
\* tokens and be denied, then checks at t1 only
ExhaustedThenIdle(k, t0, t1) ==
    LET A == {p \in DoneOn(k) : now[p] = t0}
        B == {p \in DoneOn(k) : now[p] = t1}
    IN /\ t0 < t1
       /\ A \cup B = DoneOn(k)
       /\ Cardinality(A) >= max_requests + 1
       /\ \A p \in A : Rank(p) = 1 => ~bucket[p].present

\* C5: after the tokens are used up and a check denied, idle time e allows exactly
\* floor(e * max_requests / window_seconds) further checks, at most max_requests;
\* so one check, and the next denied, when e * max_requests / window_seconds = 1.
C5_RefillAfterIdle ==
    \A k \in Keys : \A t0, t1 \in 0..clock :
        ExhaustedThenIdle(k, t0, t1) =>
            LET first == Cardinality({p \in DoneOn(k) : now[p] = t0})
                fresh == Min(max_requests,
                             ((t1 - t0) * max_requests) \div window_seconds)
            IN \A p \in DoneOn(k) :
                now[p] = t1 => (result[p].allowed <=> Rank(p) - first <= fresh)

C5_Witness ==
    \E t0, t1 \in 0..clock :
        /\ ExhaustedThenIdle("k1", t0, t1)
        /\ (t1 - t0) * max_requests = window_seconds
        /\ \E p, q \in DoneOn("k1") :
            /\ now[p] = t1 /\ now[q] = t1 /\ q = p + 1
            /\ result[p].allowed /\ ~result[q].allowed

\* ---- C6 ---------------------------------------------------------------------------
InRange(t) == 0 <= t /\ t <= max_requests * window_seconds

\* C6: the tokens a check persists are within [0, max_requests] whatever the time
\* since last_refill; a check that reads a bucket of non-negative tokens last
\* refilled a window or more ago is allowed, and no decision has remaining above
\* max_requests.
C6_PersistedTokensInRange ==
    [][\A p \in Calls :
         /\ (pc[p] = "hset" /\ pc'[p] = "expire")
                => InRange(store'[key[p]].tokens)
         /\ (/\ pc[p] = "hgetall" /\ pc'[p] # "hgetall"
             /\ redis = "client" /\ storeUp
             /\ store[key[p]].present /\ store[key[p]].tokens >= 0
             /\ now[p] - store[key[p]].last_refill >= window_seconds)
                => (pc'[p] = "hset" /\ InRange(tokens'[p]))
         /\ (pc[p] # "done" /\ pc'[p] = "done")
                => result'[p].remaining <= max_requests]_vars

\* a check has persisted its tokens on a bucket last refilled two windows before
C6_Witness ==
    \E p \in Calls :
        /\ pc[p] = "expire"
        /\ bucket[p].present
        /\ now[p] - bucket[p].last_refill >= 2 * window_seconds
        /\ store[key[p]].tokens = tokens[p]
        /\ tokens[p] = (max_requests - 1) * window_seconds

\* ---- C7 ---------------------------------------------------------------------------
\* C7: a check that returns allowed=false has left the store as it was.
C7_DeniedLeavesRecord ==
    \A p \in Calls : (Returned(p) /\ ~result[p].allowed) => ~wrote[p]

\* ---- C8 ---------------------------------------------------------------------------
\* C8: a check decides, and reports remaining, as it would had the denied checks
\* before it on the key never been made.
C8_DenialsChangeNothingLater ==
    \A p \in Calls :
        Returned(p) =>
            /\ result[p].allowed = twin[p].allowed
            /\ result[p].remaining = twin[p].remaining

\* ---- C9 ---------------------------------------------------------------------------
\* C9: a check that finds last_refill later than its now takes the elapsed time as
\* zero: it is allowed exactly when the stored tokens are at least 1.
C9_FutureRefillClamped ==
    \A p \in Calls :
        (/\ Returned(p) /\ outcome[p] = "decision"
         /\ bucket[p].present
         /\ bucket[p].last_refill > now[p])
        => (result[p].allowed <=> bucket[p].tokens >= window_seconds)

\* ---- C10 --------------------------------------------------------------------------
\* C10: with fail_open set, a check that ends while the store is unreachable returns
\* allowed=true, remaining=max_requests, retry_after=0.
C10_FailOpenAllows ==
    [][\A p \in Calls :
         (fail_open /\ ~storeUp /\ pc[p] # "done" /\ pc'[p] = "done")
         => /\ outcome'[p] # "raised"
            /\ result'[p].allowed
            /\ result'[p].remaining = max_requests
            /\ result'[p].retry_after = 0]_vars

\* ---- C11 --------------------------------------------------------------------------
\* C11: with fail_open false, a check that ends while the store is unreachable
\* returns allowed=false, remaining=0, retry_after=window_seconds.
C11_FailClosedDenies ==
    [][\A p \in Calls :
         (~fail_open /\ ~storeUp /\ pc[p] # "done" /\ pc'[p] = "done")
         => /\ outcome'[p] # "raised"
            /\ ~result'[p].allowed
            /\ result'[p].remaining = 0
            /\ result'[p].retry_after = window_seconds]_vars

\* ---- C12 --------------------------------------------------------------------------
\* C12: a check on a limiter whose connect() was never called does not raise and
\* returns the decision of the policy: allowed exactly when fail_open.
C12_NeverConnectedFollowsPolicy ==
    [][\A p \in Calls :
         (redis = "None" /\ pc[p] = "hgetall" /\ pc'[p] = "done")
         => /\ outcome'[p] # "raised"
            /\ result'[p] = Fallback(now[p])]_vars

\* ---- C13 --------------------------------------------------------------------------
\* C13: a check of a connected limiter that ends at a store call the store does
\* not answer, whatever the failure, returns the decision of the policy and
\* raises nothing.
C13_EveryStoreFailureDegrades ==
    [][\A p \in Calls :
         (/\ redis = "client" /\ ~storeUp
          /\ pc[p] \in {"hgetall", "hset", "expire"} /\ pc'[p] = "done")
         => /\ outcome'[p] = "fallback"
            /\ result'[p] = Fallback(now[p])]_vars

\* ---- C14 --------------------------------------------------------------------------
\* C14: a check called with max_requests <= 0 or window_seconds <= 0 fails at once
\* with a configuration error: it returns no decision and neither reads nor
\* writes the store, whether the key has a bucket or not.
C14_BadConfigFailsFast ==
    (max_requests <= 0 \/ window_seconds <= 0) =>
        \A p \in Calls :
            /\ pc[p] \notin {"hset", "expire"}
            /\ pc[p] = "done" =>
                  /\ outcome[p] = "raised"
                  /\ bucket[p] = Absent
                  /\ ~wrote[p]

\* ---- C15 --------------------------------------------------------------------------
\* C15: when a check that wrote the key's record returns allowed=true, the record
\* is in the store with a TTL of 2 * window_seconds.
C15_AllowedLeavesTTL ==
    [][\A p \in Calls :
         (pc[p] = "expire" /\ pc'[p] = "done" /\ result'[p].allowed)
         => /\ store'[key[p]].present
            /\ store'[key[p]].ttl = 2 * window_seconds]_vars

\* ---- C16 --------------------------------------------------------------------------
\* C16: the record and its TTL are written as one: whatever store failure struck
\* the checks made so far, a record that is in the store once no check is in
\* flight has a TTL.
C16_NoRecordWithoutTTL ==
    InFlight = {} => \A k \in Keys : store[k].present => store[k].ttl # NoTTL

\* ---- C17 --------------------------------------------------------------------------
\* the bucket an absent record stands for: {tokens: max_requests, last_refill: now}
FullBucket(n) ==
    [present |-> TRUE, tokens |-> max_requests * window_seconds, last_refill |-> n,
     ttl |-> NoTTL]

\* C17: a check that reads no record for its key, never written or expired, goes
\* on to write; it returns the decision of a check on a full bucket last refilled
\* now: allowed, remaining = max_requests - 1; and it writes
\* {tokens: max_requests - 1, last_refill: now} to the store.
C17_AbsentIsFullBucket ==
    [][\A p \in Calls :
         /\ (/\ pc[p] = "hgetall" /\ pc'[p] # "hgetall"
             /\ redis = "client" /\ storeUp
             /\ ~store[key[p]].present)
                => pc'[p] = "hset"
         /\ (pc[p] = "hset" /\ pc'[p] = "expire" /\ ~bucket[p].present)
                => /\ store'[key[p]].present
                   /\ store'[key[p]].tokens = (max_requests - 1) * window_seconds
                   /\ store'[key[p]].last_refill = now[p]
         /\ (/\ pc[p] = "expire" /\ pc'[p] = "done" /\ outcome'[p] = "decision"
             /\ ~bucket[p].present)
                => /\ result'[p] = Decision(Consume(FullBucket(now[p]), now[p]), now[p])
                   /\ result'[p].allowed
                   /\ result'[p].remaining = max_requests - 1]_vars

\* a check found no record where an earlier allowed check had left one, and
\* was decided as on a full bucket
C17_Witness ==
    \E p, q \in Calls :
        /\ q < p /\ key[p] = key[q]
        /\ Returned(p) /\ Returned(q)
        /\ outcome[p] = "decision" /\ outcome[q] = "decision"
        /\ result[q].allowed /\ wrote[q]
        /\ now[p] >= now[q] + 2 * window_seconds
        /\ ~bucket[p].present
        /\ result[p].allowed /\ result[p].remaining = max_requests - 1

\* ---- C18 --------------------------------------------------------------------------
\* C18: a record that no check has written for 2 * window_seconds is gone from the
\* store: every record present was written less than 2 * window_seconds ago.
C18_IdleRecordExpires ==
    InFlight = {} =>
        \A k \in Keys : store[k].present => clock - store[k].last_refill < 2 * window_seconds

\* ---- C19 --------------------------------------------------------------------------
\* the characters a key must not hold
Forbidden == {"\r", "\n", ";"}

\* C19: building a key from the caller's values does not raise on account of them,
\* and the key is at most KeyLimit characters long and holds no CR, LF or ';'.
C19_KeyBoundedAndClean ==
    (/\ built # NotBuilt
     /\ strategy \in {"ip", "user", "combined"}
     /\ strategy = "user" => user_id # <<>>)
    => /\ built.state = "returned"
       /\ Len(built.key) <= KeyLimit
       /\ \A i \in 1..Len(built.key) : built.key[i] \notin Forbidden

\* ---- C20 --------------------------------------------------------------------------
\* the (dimension, value, resource) a key is built from
Triple(r, st, uid) ==
    IF st = "user" THEN <<"user", <<uid>>, r.path>>
    ELSE IF st = "combined" /\ uid # <<>>
    THEN <<"combined", <<uid, get_client_ip(r)>>, r.path>>
    ELSE <<"ip", <<get_client_ip(r)>>, r.path>>

\* C20: the delimiter does not occur in a value, so that no other (dimension,
\* value, resource) gives the key that was built.
C20_KeysInjective ==
    built.state = "returned" =>
        \A r \in Requests, st \in Strategies, uid \in UserIds :
            (/\ get_rate_limit_key(r, st, uid).state = "returned"
             /\ Triple(r, st, uid) # Triple(request, strategy, user_id))
            => get_rate_limit_key(r, st, uid) # built

\* ---- C21 --------------------------------------------------------------------------
\* C21: every decision a check returns, from the store or from the fallback, and
\* whatever the stored bucket, also one last refilled in the future, has
\* 0 <= remaining <= limit = max_requests and retry_after = 0 exactly when
\* allowed; a check that reads a bucket last refilled in the future returns a
\* decision.
C21_DecisionWellFormed ==
    [][\A p \in Calls :
         /\ (pc[p] # "done" /\ pc'[p] = "done")
                => /\ 0 <= result'[p].remaining
                   /\ result'[p].remaining <= result'[p].limit
                   /\ result'[p].limit = max_requests
                   /\ result'[p].retry_after = 0 <=> result'[p].allowed
         /\ (/\ pc[p] = "hgetall" /\ pc'[p] # "hgetall"
             /\ redis = "client" /\ storeUp
             /\ store[key[p]].present /\ store[key[p]].last_refill > now[p])
                => (pc'[p] = "hset" \/ outcome'[p] = "decision")]_vars

\* a check denied on a bucket last refilled in the future, with negative tokens
C21_Witness ==
    \E p \in Calls :
        /\ Returned(p) /\ outcome[p] = "decision"
        /\ bucket[p].present /\ bucket[p].last_refill > now[p]
        /\ tokens[p] <= -window_seconds
        /\ ~result[p].allowed /\ result[p].remaining = 0

\* ---- C22 --------------------------------------------------------------------------
\* floor(t) of tokens t kept in units of 1/window_seconds
Floor(t) == t \div window_seconds

\* C22: a decision computed from the store has, when allowed, remaining =
\* max(0, floor(tokens')) for the tokens' the check persisted, and remaining = 0
\* when denied.
C22_RemainingIsFloor ==
    [][\A p \in Calls :
         (pc[p] # "done" /\ pc'[p] = "done" /\ outcome'[p] = "decision")
         => IF result'[p].allowed
            THEN /\ wrote'[p]
                 /\ store'[key[p]].tokens = tokens[p]
                 /\ result'[p].remaining = Max(0, Floor(store'[key[p]].tokens))
            ELSE /\ ~wrote'[p]
                 /\ result'[p].remaining = 0]_vars

\* an allowed check persisted a fractional number of tokens above one
C22_Witness ==
    \E p \in Calls :
        /\ Returned(p) /\ outcome[p] = "decision" /\ result[p].allowed
        /\ tokens[p] % window_seconds # 0
        /\ tokens[p] > window_seconds
        /\ result[p].remaining = 1

InflatedBurst(k) ==
    /\ \A p, q \in DoneOn(k) : now[p] = now[q]
    /\ \A p \in DoneOn(k) :
          Rank(p) = 1 => /\ bucket[p].present
                         /\ bucket[p].tokens > max_requests * window_seconds

\* C24: sequential checks at one instant on a bucket whose stored tokens were set
\* above max_requests allow at most max_requests requests; the first of them,
\* when last_refill is not in the future, goes on from max_requests tokens, and
\* exactly the first max_requests are allowed.
C24_InflatedTokensCapped ==
    \A k \in Keys :
        InflatedBurst(k) =>
            /\ Cardinality(AllowedOn(k)) <= max_requests
            /\ \A p \in DoneOn(k) :
                  (Rank(p) = 1 /\ bucket[p].last_refill <= now[p])
                  => /\ tokens[p] = (max_requests - 1) * window_seconds
                     /\ \A q \in DoneOn(k) :
                           result[q].allowed <=> Rank(q) <= max_requests

C24_Witness ==
    /\ InflatedBurst("k1")
    /\ max_requests >= 2
    /\ \E p, q \in DoneOn("k1") :
          /\ Rank(p) = 1 /\ bucket[p].last_refill <= now[p]
          /\ Rank(q) = max_requests + 1 /\ ~result[q].allowed
    /\ Cardinality(AllowedOn("k1")) = max_requests

\* ---- C25 --------------------------------------------------------------------------
\* C25: a decision computed from the store differs, in some field, from the
\* fail-open and from the fail-closed decision of the same call.
C25_FallbackDistinguishable ==
    \A p \in Calls :
        (Returned(p) /\ outcome[p] = "decision")
        => /\ result[p] # FailOpenDecision(now[p])
           /\ result[p] # FailClosedDecision(now[p])

\* ---- C26 --------------------------------------------------------------------------
\* C26: no request through the middleware or the decorator ends in an exception
\* of the key construction or of the check, and a request whose decision is
\* denied is answered 429 with Retry-After = retry_after.
C26_DeniedIs429NoUnhandled ==
    \A p \in Calls :
        /\ response[p] # Unhandled
        /\ (/\ via[p] # "none" /\ p \notin Pending
            /\ Returned(p) /\ ~result[p].allowed)
           => /\ response[p].status = 429
              /\ <<"Retry-After", ToString(result[p].retry_after)>>
                     \in response[p].headers

\* ---- C27 --------------------------------------------------------------------------
\* the value of header h in response r, as a set: empty when r does not carry h
Header(r, h) == {x[2] : x \in {y \in r.headers : y[1] = h}}

\* the response carries the decision in its rate-limit headers
CarriesDecision(r, res) ==
    /\ Header(r, "X-RateLimit-Limit") = {ToString(res.limit)}
    /\ Header(r, "X-RateLimit-Remaining") = {ToString(res.remaining)}
    /\ Header(r, "X-RateLimit-Reset") = {ToString(res.reset)}
    /\ Header(r, "Retry-After") # {} <=> ~res.allowed

\* the middleware returns a response to call p in this step
MiddlewareReturns(p) ==
    /\ response[p] = NoResponse
    /\ response'[p] \notin {NoResponse, Unhandled}
    /\ via'[p] = "middleware"

\* C27 as stated: every response the middleware returns for a path that has a
\* rate-limit configuration carries the decision's limit, remaining and reset,
\* and Retry-After exactly when the decision is denied.
C27_ConfiguredResponsesCarryHeaders ==
    [][\A p \in Calls :
         (MiddlewareReturns(p) /\ request'.path \in DOMAIN rate_limits)
         => (pc'[p] = "done" /\ CarriesDecision(response'[p], result'[p]))]_vars

\* C27, amended: so does every response the middleware returns for a configured
\* path that is under none of SKIP_PATHS.
C27_CheckedResponsesCarryHeaders ==
    [][\A p \in Calls :
         (/\ MiddlewareReturns(p)
          /\ request'.path \in DOMAIN rate_limits
          /\ ~Skipped(request'.path))
         => (pc'[p] = "done" /\ CarriesDecision(response'[p], result'[p]))]_vars

\* the middleware has answered an allowed and a denied request, with the headers
C27_Witness ==
    \E p, q \in Calls :
        /\ via[p] = "middleware" /\ via[q] = "middleware"
        /\ response[p].status = 200 /\ pc[p] = "done" /\ outcome[p] = "decision"
        /\ CarriesDecision(response[p], result[p])
        /\ response[q].status = 429 /\ outcome[q] = "decision"
        /\ CarriesDecision(response[q], result[q])

\* ---- C28 --------------------------------------------------------------------------
\* C28: a step of a check on one key leaves the record (tokens, last_refill, TTL) of
\* every other key as it was, and, whatever the interleaving with the checks on the
\* other key, the decisions on a key and its record are those of its own checks made
\* alone, one after the other.
C28_KeysIndependent ==
    [][/\ \A p \in Calls, k \in Keys :
            (pc'[p] # pc[p] /\ k # key'[p]) => store'[k] = store[k]
       /\ \A p \in Calls :
            (pc'[p] = "done" /\ pc[p] # "done")
                => result'[p] = SeqDecision(key[p], Rank(p)', clock)
       /\ \A k \in Keys :
            (\A q \in InFlight' : key'[q] # k)
                => store'[k] = SeqStore(k, Cardinality(DoneOn(k)'), clock)[k]]_vars

\* a check on k1 has written and a check on k2 is between its read and its write,
\* after an earlier check on each key
C28_Witness ==
    \E p, q \in Calls :
        /\ key[p] = "k1" /\ pc[p] = "expire"
        /\ key[q] = "k2" /\ pc[q] = "hset"
        /\ DoneOn("k1") # {} /\ DoneOn("k2") # {}
        /\ store["k2"].present
AddressIn(k) ==
    LET from == IF strategy = "combined" /\ user_id # <<>>
                THEN Len(TagCombined) + Len(user_id) + 3
                ELSE Len(TagIp) + 2
    IN SubSeq(k, from, Len(k) - Len(request.path) - 1)

\* e is the left-most entry of chain h: what stands before its first comma
LeftMost(h, e) ==
    /\ Len(e) <= Len(h)
    /\ e = SubSeq(h, 1, Len(e))
    /\ \A j \in 1..Len(e) : e[j] # ","
    /\ Len(e) < Len(h) => h[Len(e) + 1] = ","

\* a is e without the whitespace around it
Stripped(e, a) ==
    /\ a # <<>> => a[1] \notin Whitespace /\ a[Len(a)] \notin Whitespace
    /\ \E lo \in 1..(Len(e) + 1) :
          /\ lo + Len(a) - 1 <= Len(e)
          /\ a = SubSeq(e, lo, lo + Len(a) - 1)
          /\ \A j \in 1..Len(e) : (j < lo \/ j >= lo + Len(a)) => e[j] \in Whitespace

\* C30: the address in a key built with an address is the left-most entry of the
\* X-Forwarded-For chain without the whitespace around it when the request has the
\* header, and the address of the direct connection when it has not.
C30_LeftMostForwardedOrHost ==
    (/\ built.state = "returned"
     /\ strategy = "ip" \/ strategy = "combined")
    => IF request.forwarded_for = <<>>
       THEN AddressIn(built.key) = request.host
       ELSE \E n \in 0..Len(request.forwarded_for) :
               /\ LeftMost(request.forwarded_for, SubSeq(request.forwarded_for, 1, n))
               /\ Stripped(SubSeq(request.forwarded_for, 1, n), AddressIn(built.key))

\* the key built by address for a request that came through a proxy: the client's
\* address, not the proxy's and without the blanks
C30_Witness ==
    /\ strategy = "ip"
    /\ request.forwarded_for = ChainValue
    /\ request.path = <<"/", "a">>
    /\ built = KeyOf(<<"i", "p", ":", "1", ":", "/", "a">>)
\* ---- C31 --------------------------------------------------------------------------
\* r of the claim, in units of 1/window_seconds of a token
Refilled(b, n) ==
    LET grown == b.tokens + (n - b.last_refill) * max_requests
        full == max_requests * window_seconds
    IN IF grown < full THEN grown ELSE full

\* C31: a check with no other call in flight that reads a bucket {tokens: t,
\* last_refill: l} at now >= l is allowed exactly when
\* r = min(max_requests, t + (now - l) * max_requests / window_seconds) >= 1, and
\* when allowed the record it writes is exactly {tokens: r - 1, last_refill: now}.
C31_RefillThenConsume ==
    [][\A p \in Calls :
         /\ (/\ pc[p] = "hgetall" /\ pc'[p] # "hgetall"
             /\ store[key[p]].present
             /\ now[p] >= store[key[p]].last_refill)
            => /\ pc'[p] = "hset" <=> Refilled(store[key[p]], now[p]) >= window_seconds
               /\ pc'[p] = "done" => ~result'[p].allowed
         /\ (/\ pc[p] = "hset" /\ pc'[p] = "expire"
             /\ bucket[p].present
             /\ now[p] >= bucket[p].last_refill)
            => /\ store'[key[p]].present
               /\ store'[key[p]].tokens = Refilled(bucket[p], now[p]) - window_seconds
               /\ store'[key[p]].last_refill = now[p]
         /\ (/\ pc[p] = "expire" /\ pc'[p] = "done"
             /\ bucket[p].present
             /\ now[p] >= bucket[p].last_refill)
            => /\ result'[p].allowed
               /\ store'[key[p]].tokens = Refilled(bucket[p], now[p]) - window_seconds
               /\ store'[key[p]].last_refill = now[p]]_vars

\* a check found a bucket whose refill came to exactly one token, was allowed and
\* left a bucket of no tokens refilled now
C31_Witness ==
    \E p \in Calls :
        /\ Returned(p) /\ outcome[p] = "decision"
        /\ bucket[p].present
        /\ now[p] > bucket[p].last_refill
        /\ bucket[p].tokens < window_seconds
        /\ Refilled(bucket[p], now[p]) = window_seconds
        /\ result[p].allowed
        /\ store[key[p]].tokens = 0 /\ store[key[p]].last_refill = now[p]
\* ---- C32 --------------------------------------------------------------------------
\* C32: once max_requests or more concurrent checks on one fresh key have all
\* returned, with the store answering and no time passing, at least max_requests of
\* them were allowed, whatever the interleaving of their store calls.
C32_AtLeastCapacityAllowed ==
    \A k \in Keys :
        (/\ \A p \in InFlight : key[p] # k
         /\ Cardinality(DoneOn(k)) >= max_requests)
        => Cardinality(AllowedOn(k)) >= max_requests

\* all the checks returned, more of them than max_requests, two of them had both
\* found no bucket, and one was denied
C32_Witness ==
    /\ InFlight = {}
    /\ Cardinality(DoneOn("k1")) = MaxCalls
    /\ MaxCalls > max_requests
    /\ \E p, q \in DoneOn("k1") : p # q /\ ~bucket[p].present /\ ~bucket[q].present
    /\ \E p \in DoneOn("k1") : ~result[p].allowed
    /\ Cardinality(AllowedOn("k1")) >= max_requests
\* ---- C33 --------------------------------------------------------------------------
\* C33: a check that returns a fallback decision, the fail-open allowance or the
\* fail-closed denial, has not modified the store.
C33_FallbackLeftStoreAlone ==
    \A p \in Calls :
        (pc[p] = "done" /\ outcome[p] = "fallback") => ~wrote[p]
\* ---- C34 --------------------------------------------------------------------------
\* C34: with all the checks made at one instant, so that no refill time elapses,
\* the tokens persisted for a key never go up from one write to the next, whatever
\* the interleaving of the concurrent checks.
C34_TokensNeverGoUp ==
    [][\A k \in Keys :
         (store[k].present /\ store'[k].present)
         => store'[k].tokens <= store[k].tokens]_vars
\* ---- C35 --------------------------------------------------------------------------
\* the checks on key k made from time t0 to time t1 that were allowed
AllowedWithin(k, t0, t1) == {p \in AllowedOn(k) : t0 <= now[p] /\ now[p] <= t1}

\* C35: of the checks made one after the other on one key, those allowed within
\* any interval of length T are at most
\* max_requests + floor(T * max_requests / window_seconds).
C35_BurstPlusRate ==
    \A k \in Keys : \A t0, t1 \in 0..MaxTime :
        t0 <= t1 =>
            Cardinality(AllowedWithin(k, t0, t1))
                <= max_requests + ((t1 - t0) * max_requests) \div window_seconds

\* from no bucket, checks spread over an interval in which at least one token came
\* back: as many allowed as the bound lets through, and one denied
C35_Witness ==
    \E t0, t1 \in 0..MaxTime :
        /\ t0 < t1
        /\ ((t1 - t0) * max_requests) \div window_seconds >= 1
        /\ \E p \in DoneOn("k1") : Rank(p) = 1 /\ ~bucket[p].present /\ now[p] = t0
        /\ \E p \in DoneOn("k1") : t0 <= now[p] /\ now[p] <= t1 /\ ~result[p].allowed
        /\ Cardinality(AllowedWithin("k1", t0, t1))
               = max_requests + ((t1 - t0) * max_requests) \div window_seconds
\* ---- C36 --------------------------------------------------------------------------
\* check p was denied on a bucket of no fewer than zero tokens, and by time t
\* window_seconds / max_requests has passed since that bucket's last_refill
DeniedDueBy(p, t) ==
    /\ Returned(p) /\ outcome[p] = "decision" /\ ~result[p].allowed
    /\ bucket[p].present /\ bucket[p].tokens >= 0
    /\ now[p] <= t
    /\ (t - bucket[p].last_refill) * max_requests >= window_seconds

\* a later check was allowed, at time t at the latest
AllowedBy(p, t) ==
    \E q \in Calls : q > p /\ Returned(q) /\ result[q].allowed /\ now[q] <= t

\* C36: when time keeps advancing and the caller keeps retrying on an exhausted key,
\* the store answering, a check is eventually allowed, at the latest at the time when
\* window_seconds / max_requests has passed since the last_refill of the bucket, the
\* time of the last allowed check or a time ahead that another client stored.
C36_RetryEventuallyAllowed ==
    \A p \in Calls : \A t \in 0..MaxTime : DeniedDueBy(p, t) ~> AllowedBy(p, t)

\* a check was denied and the retry made just when window_seconds / max_requests
\* had passed since last_refill was allowed
C36_Witness ==
    \E p, q \in Calls :
        /\ q > p
        /\ DeniedDueBy(p, now[q]) /\ now[p] < now[q]
        /\ (now[q] - bucket[p].last_refill) * max_requests = window_seconds
        /\ Returned(q) /\ result[q].allowed /\ bucket[q] = bucket[p]
\* ---- C37 --------------------------------------------------------------------------
\* C37: in the middleware and in the decorator, the endpoint of a request that is
\* checked is not called before the check has returned its decision, is never called
\* when the decision is denied or the check raised, and is called exactly once when
\* the decision is allowed.
C37_EndpointOnlyWhenAllowed ==
    \A p \in Calls :
        /\ (via[p] # "none" /\ pc[p] # "idle") =>
              called[p] = IF p \notin Pending /\ Returned(p) /\ result[p].allowed
                          THEN 1 ELSE 0
        /\ response[p] = Unhandled => called[p] = 0

\* the middleware let a request through to its endpoint, once, and the decorator
\* refused the next one without calling its endpoint
C37_Witness ==
    \E p, q \in Calls :
        /\ via[p] = "middleware" /\ via[q] = "decorator"
        /\ Returned(p) /\ outcome[p] = "decision" /\ result[p].allowed
        /\ response[p].status = 200 /\ called[p] = 1
        /\ Returned(q) /\ outcome[q] = "decision" /\ ~result[q].allowed
        /\ response[q].status = 429 /\ called[q] = 0
\* ---- C38 --------------------------------------------------------------------------
\* the key of strategy 'ip' for request r
IpKey(r) ==
    <<"i", "p", ":">> \o (IF r.forwarded_for # <<>>
                          THEN Strip(SplitFirst(r.forwarded_for)) ELSE r.host)
                     \o <<":">> \o r.path

\* a wrapper builds the key for call p in this step
BuildsKey(p) == via[p] = "none" /\ via'[p] # "none" /\ response'[p] # Downstream

\* C38: with strategy 'combined' and no user_id the key built is the key of strategy
\* 'ip' for the same request, and the check that follows works on the bucket of that
\* key; with strategy 'user' and no user_id, or with an unknown strategy,
\* get_rate_limit_key raises ValueError and the request makes no store call, in
\* that step or later.
C38_CombinedFallsBackToIp ==
    [][\A p \in Calls :
         /\ (BuildsKey(p) /\ user_id' = <<>> /\ strategy' \in {"ip", "combined"})
            => /\ built' = KeyOf(IpKey(request'))
               /\ pc'[p] = "hgetall"
               /\ KeyNames[key'[p]] = IpKey(request')
         /\ (/\ BuildsKey(p)
             /\ \/ strategy' = "user" /\ user_id' = <<>>
                \/ strategy' \notin {"ip", "user", "combined"})
            => /\ built' = ValueError
               /\ pc'[p] = "idle"
               /\ store' = store
         /\ (via[p] # "none" /\ pc[p] = "idle")
            => (pc'[p] = "idle" /\ bucket'[p] = Absent /\ ~wrote'[p])]_vars

\* a request under 'ip' took the only token of the bucket and the same request under
\* 'combined' and without a user was denied on that bucket
C38_Witness ==
    \E p, q \in Calls :
        /\ p < q /\ key[p] = key[q]
        /\ Returned(p) /\ outcome[p] = "decision" /\ result[p].allowed
        /\ Returned(q) /\ outcome[q] = "decision" /\ ~result[q].allowed
        /\ strategy = "combined" /\ user_id = <<>>
        /\ built = KeyOf(IpKey(request))
        /\ bucket[q].present /\ bucket[q].tokens = 0
====
